---- MODULE Spec2Model ----
(***************************************************************************)
(* Print server: the in-memory print queue (printQueue, isPrinting) and    *)
(* its single worker processQueue of src/server.js, the Firestore          *)
(* printQueue listener that feeds it, and the stores the worker touches.   *)
(*                                                                         *)
(* JavaScript runs one callback at a time: a handler runs without          *)
(* interruption up to its next await.  Every action below is one such      *)
(* run-to-completion slice: the slice that starts when a callback is       *)
(* invoked or when an awaited call returns, up to the next await.          *)
(***************************************************************************)
EXTENDS Integers, Sequences, FiniteSets, TLC

\* ---------------------------------------------------------------- bounds
MaxPush == 3        \* total number of printQueue.push calls explored
MaxFeedPush == 2    \* push calls explored when the listener feeds the queue
MaxFeedErrors == 1  \* number of feed errors explored
MaxLivePush == 2    \* push calls explored where liveness is checked
MaxItems == 2       \* length of the item lists explored
MaxOptions == 3     \* length of the option lists explored
MaxTogo == 3        \* length of the togo item lists explored
MaxRemovalPush == 3 \* push calls explored where removals are looked at

\* ------------------------------------------------------ CONFIG constants
DINE_IN  == "Dine In"
TAKE_OUT == "Take Out"
DELIVERY == "Delivery"     \* an order type that is neither of the two
KITCHEN_A == "A"
KITCHEN_B == "B"
KITCHEN_C == "C"
KITCHEN_Z == "Z"
EGG_ROLL == "Egg Roll"
SPRING_ROLL == "Spring Roll"
RICE == "Rice"
NOODLES == "Noodles"
SPECIAL_ITEM == "#3"
PST_PERCENT == 6          \* CONFIG.TAX.PST_RATE, 0.06, in percent
GST_PERCENT == 5          \* CONFIG.TAX.GST_RATE, 0.05, in percent

NoPrintId == ""            \* a falsy order.printId (undefined / "")

\* The jobs an enqueue may carry: order.id, order.orderType, order.printId.
\* The listener always sets printId (server.js:112); the last job is an order
\* handed to the queue without one, the case server.js:75 guards against.
JobInputs ==
  { [id |-> "o1", orderType |-> DINE_IN,  printId |-> "d1"],
    [id |-> "o2", orderType |-> TAKE_OUT, printId |-> "d2"],
    [id |-> "o2", orderType |-> DELIVERY, printId |-> "d3"],
    [id |-> "o1", orderType |-> DINE_IN,  printId |-> NoPrintId] }

\* ------------------------------------------------------------- variables
VARIABLES
  printQueue,    \* server.js:20  the buffer, a sequence of jobs
  isPrinting,    \* server.js:21  the busy flag
  active,        \* the processQueue activations suspended at an await
  records,       \* the documents of dineInOrders / takeOutOrders that exist
  printed,       \* those whose printed field is true
  durable,       \* the documents of the printQueue collection
  placed,        \* the documents ever added to the printQueue collection
  listener,      \* "disconnected" or "listening" (a live onSnapshot)
  connects,      \* scheduled calls of connect (startup, setTimeout)
  seen,          \* the documents of the listener's previous snapshot
  fresh,         \* the subscription has not delivered its first snapshot
  modified,      \* documents of the previous snapshot modified since
  feedErrors,    \* history: number of feed errors so far
  pushed,        \* history: number of push calls so far (job identities)
  started,       \* history: the jobs dequeued, in dequeue order
  done,          \* history: the jobs whose activation has finished
  last,          \* history: the activation the latest step finished, if any
  ticket,        \* one call of printOrder, looked at on its own
  calc           \* one call of a function of the orderItems module

vars == <<printQueue, isPrinting, active, records, printed, durable, placed,
          listener, connects, seen, fresh, modified, feedErrors,
          pushed, started, done, last, ticket, calc>>

\* The state of the server proper.
server == <<printQueue, isPrinting, active, records, printed, durable, placed,
            listener, connects, seen, fresh, modified, feedErrors,
            pushed, started, done, last>>

feed == <<placed, listener, connects, seen, fresh, modified, feedErrors>>

NoLast == [order |-> [id |-> "", orderType |-> "", printId |-> "", tok |-> 0],
           trace |-> <<>>, printSucceeded |-> FALSE]

\* ------------------------------------------------ processQueue, pure part
\* mutant: the two destinations in the opposite order
KitchensSwapped(orderType) ==
  IF orderType = TAKE_OUT THEN <<KITCHEN_A, KITCHEN_B>> ELSE <<"">>

\* server.js:34-41  the destination tags of the emissions of one order
Kitchens(orderType) ==
  IF orderType = TAKE_OUT THEN <<KITCHEN_B, KITCHEN_A>> ELSE <<"">>

\* server.js:47-50  the collection holding the order's source-of-truth record
CollectionName(orderType) ==
  IF orderType = DINE_IN THEN "dineInOrders" ELSE "takeOutOrders"

\* mutant: the record is addressed by the id of the queue document
OrderRefByPrintId(order) == <<CollectionName(order.orderType), order.printId>>

\* server.js:52  the record addressed by the printed-flag step
OrderRef(order) == <<CollectionName(order.orderType), order.id>>

\* mutant: the guard on order.printId is missing
HasPrintIdAlways(order) == TRUE

\* server.js:75  if (order.printId)
HasPrintId(order) == order.printId # NoPrintId

\* mutant: the update is issued whatever the snapshot says
ShouldUpdateUnlessError(res) == res # "error"

\* server.js:55  if (orderDoc.exists), reached only when get() did not throw
ShouldUpdate(res) == res = "exists"

\* mutant: the busy flag is not consulted
CanStartNoBusy(busy, q) == Len(q) # 0

\* server.js:25  the negation of the early return
CanStart(busy, q) == ~busy /\ Len(q) # 0

\* mutant: pop() instead of shift(), the newest job is taken
PopValue(q) == q[Len(q)]

\* server.js:28  printQueue.shift(): the value returned ...
ShiftValue(q) == Head(q)

\* mutant: printQueue[0] instead of shift(), the head is read but not removed
ShiftRestKeep(q) == q

\* ... and the array left behind
ShiftRest(q) == Tail(q)

AllRecords == { OrderRef(j) : j \in JobInputs }

\* The worker's part of the state, as one record the helpers transform.
Cur == [printQueue |-> printQueue, isPrinting |-> isPrinting,
        active |-> active, started |-> started, done |-> done,
        last |-> NoLast]

SetWorker(w) ==
  /\ printQueue' = w.printQueue
  /\ isPrinting' = w.isPrinting
  /\ active' = w.active
  /\ started' = w.started
  /\ done' = w.done
  /\ last' = w.last

\* server.js:37/40 and printer.js:280-285: printOrder is called and suspends
\* at its first await, printer.isPrinterConnected().
CallPrintOrder(a, kitchen, rest) ==
  [a EXCEPT !.pc = "isPrinterConnected", !.kitchen = kitchen, !.rest = rest,
            !.trace = Append(@, <<"print", kitchen>>)]

\* mutant: the early return clears the busy flag
processQueueClearsBusy(w) ==
  IF ~CanStart(w.isPrinting, w.printQueue) THEN [w EXCEPT !.isPrinting = FALSE]
  ELSE LET order == ShiftValue(w.printQueue)
           ks == Kitchens(order.orderType)
           a0 == [order |-> order, pc |-> "start", kitchen |-> "",
                  rest |-> <<>>, printSucceeded |-> FALSE,
                  trace |-> << <<"start", "">> >>]
       IN [w EXCEPT !.isPrinting = TRUE,
                    !.printQueue = ShiftRest(@),
                    !.active = @ \cup {CallPrintOrder(a0, Head(ks), Tail(ks))},
                    !.started = Append(@, order)]

\* server.js:24-41  one call of processQueue, up to its first await
processQueue(w) ==
  IF ~CanStart(w.isPrinting, w.printQueue) THEN w
  ELSE LET order == ShiftValue(w.printQueue)
           ks == Kitchens(order.orderType)
           a0 == [order |-> order, pc |-> "start", kitchen |-> "",
                  rest |-> <<>>, printSucceeded |-> FALSE,
                  trace |-> << <<"start", "">> >>]
       IN [w EXCEPT !.isPrinting = TRUE,
                    !.printQueue = ShiftRest(@),
                    !.active = @ \cup {CallPrintOrder(a0, Head(ks), Tail(ks))},
                    !.started = Append(@, order)]

\* server.js:116  printQueue.push(order)
Push(w, job) == [w EXCEPT !.printQueue = Append(@, job)]

\* mutant: the finally block leaves the busy flag set
EndedStillBusy(w, a0, a) ==
  [w EXCEPT !.active = @ \ {a0},
            !.done = @ \cup {a.order.tok},
            !.last = [order |-> a.order,
                      trace |-> Append(a.trace, <<"end", "">>),
                      printSucceeded |-> a.printSucceeded]]

\* server.js:90  isPrinting = false: activation a0 of w ends (a is a0 with
\* its trace completed)
Ended(w, a0, a) ==
  [w EXCEPT !.isPrinting = FALSE,
            !.active = @ \ {a0},
            !.done = @ \cup {a.order.tok},
            !.last = [order |-> a.order,
                      trace |-> Append(a.trace, <<"end", "">>),
                      printSucceeded |-> a.printSucceeded]]

\* mutant: the finally block does not call processQueue again
FinishNoRetrigger(w, a0, a) == Ended(w, a0, a)

\* server.js:90-91  the end of the finally block: the flag is cleared and
\* processQueue is called again
Finish(w, a0, a) == processQueue(Ended(w, a0, a))

\* mutant: the error of the delete leaves processQueue, so the last two
\* statements of the finally block are skipped
DeleteFailedEscapes(w, a0, a) == [w EXCEPT !.active = @ \ {a0}]

\* server.js:83-91  the delete threw: the catch of the finally block logs
\* it, then the block ends as usual
DeleteFailed(w, a0, a) == Finish(w, a0, a)

\* mutant: the flag is cleared and processQueue called before the delete
\* is awaited
FinallyStartsNext(w, a0, a) ==
  IF HasPrintId(a.order)
  THEN processQueue(
         [w EXCEPT !.isPrinting = FALSE,
                   !.active = (@ \ {a0}) \cup
                     {[a EXCEPT !.pc = "delete",
                                !.trace = Append(@, <<"delete",
                                                     a.order.printId>>)]}])
  ELSE Finish(w, a0, a)

\* mutant: the queue entry is deleted only after a successful print
FinallyIfPrinted(w, a0, a) ==
  IF HasPrintId(a.order) /\ a.printSucceeded
  THEN [w EXCEPT !.active = (@ \ {a0}) \cup
          {[a EXCEPT !.pc = "delete",
                     !.trace = Append(@, <<"delete", a.order.printId>>)]}]
  ELSE Finish(w, a0, a)

\* server.js:73-92  the finally block, entered with activation a0 of w
\* replaced by a: the delete is issued and awaited, or the block finishes
Finally(w, a0, a) ==
  IF HasPrintId(a.order)
  THEN [w EXCEPT !.active = (@ \ {a0}) \cup
          {[a EXCEPT !.pc = "delete",
                     !.trace = Append(@, <<"delete", a.order.printId>>)]}]
  ELSE Finish(w, a0, a)

\* mutant: the printed-flag step also runs after a failed emission
PrintFailedThenFlag(w, a) ==
  [w EXCEPT !.active = (@ \ {a}) \cup
     {[a EXCEPT !.pc = "get",
                !.trace = @ \o << <<"printDone", "fail">>,
                                  <<"get", CollectionName(a.order.orderType)>> >>]}]

\* mutant: after a failed emission the remaining ones are still issued
PrintFailedContinues(w, a) ==
  LET a1 == [a EXCEPT !.trace = Append(@, <<"printDone", "fail">>)]
  IN IF Len(a.rest) # 0
     THEN [w EXCEPT !.active = (@ \ {a}) \cup
             {CallPrintOrder(a1, Head(a.rest), Tail(a.rest))}]
     ELSE Finally(w, a, a1)

\* server.js:71-72  an emission threw: the catch block, then finally
PrintFailed(w, a) ==
  Finally(w, a, [a EXCEPT !.trace = Append(@, <<"printDone", "fail">>)])

\* mutant: a failure of the printed-flag step marks the job as failed
FlagFailedMarksFailure(w, a0, a) ==
  Finally(w, a0, [a EXCEPT !.printSucceeded = FALSE])

\* server.js:65-73  get() or update() threw: the inner catch logs it, then
\* the finally block runs
FlagFailed(w, a0, a) == Finally(w, a0, a)

\* mutant: the printed-flag step follows the first emission, the remaining
\* emissions are left out
PrintReturnedFlagAfterFirst(w, a) ==
  LET a1 == [a EXCEPT !.trace = Append(@, <<"printDone", "ok">>)]
  IN [w EXCEPT !.active = (@ \ {a}) \cup
        {[a1 EXCEPT !.printSucceeded = TRUE, !.pc = "get",
                    !.trace = Append(@, <<"get",
                                 CollectionName(a.order.orderType)>>)]}]

\* mutant: after the last emission the finally block runs at once, the
\* printed-flag step is left out
PrintReturnedDeleteFirst(w, a) ==
  LET a1 == [a EXCEPT !.trace = Append(@, <<"printDone", "ok">>)]
  IN IF Len(a.rest) # 0
     THEN [w EXCEPT !.active = (@ \ {a}) \cup
             {CallPrintOrder(a1, Head(a.rest), Tail(a.rest))}]
     ELSE Finally(w, a, [a1 EXCEPT !.printSucceeded = TRUE])

\* server.js:36-53  an emission returned: the next one, or the get
PrintReturned(w, a) ==
  LET a1 == [a EXCEPT !.trace = Append(@, <<"printDone", "ok">>)]
  IN IF Len(a.rest) # 0
     THEN [w EXCEPT !.active = (@ \ {a}) \cup
             {CallPrintOrder(a1, Head(a.rest), Tail(a.rest))}]
     ELSE [w EXCEPT !.active = (@ \ {a}) \cup
             {[a1 EXCEPT !.printSucceeded = TRUE, !.pc = "get",
                         !.trace = Append(@, <<"get",
                                      CollectionName(a.order.orderType)>>)]}]

\* ------------------------------------------------------ printOrder alone
\* The two printOrder functions of the repository: the one of printer.js,
\* and the cross-platform one, which runs on Linux (direct interface) or on
\* Windows (escpos-usb).
Impls == {"printer.js", "part_000/linux", "part_000/win32"}

\* part_000:827  process.platform === "win32"
IS_WINDOWS(impl) == impl = "part_000/win32"

\* printer.js:289-298  the calls printOrder makes before cut, in order; the
\* first two prepare the items and issue nothing to the printer
Steps == <<"preprocessOrderItems", "groupItemsByKitchen",
           "printRestaurantHeader", "printOrderTypeHeader",
           "printPreorderInfo", "printOrderDetails", "printOrderItems",
           "printTotals", "printFooter">>

\* Where a call may throw: nowhere (0), or in one of the steps.
FailPoints == 0..Len(Steps)

\* printer.js:281  createPrinter(): a new printer with an empty buffer
NoTicket == [impl |-> "", kitchen |-> "", failAt |-> 0, pc |-> "idle",
             surface |-> <<>>, connected |-> "unknown", error |-> ""]

\* mutant: the catch block throws an error of its own
RethrowWrapped(e) == "Print error"

\* printer.js:302-305  catch (error) { console.error(...); throw error; }
Rethrow(e) == e

\* The call ends by throwing e out of printOrder.
Throw(t, e) == [t EXCEPT !.pc = "thrown", !.error = Rethrow(e)]

\* printer.js:289-298  the steps from the i-th on: every printXxx function
\* that runs issues its commands to the printer; the step failAt throws
RECURSIVE RunSteps(_, _)
RunSteps(t, i) ==
  IF i > Len(Steps) THEN t
  ELSE LET t1 == IF i > 2
                 THEN [t EXCEPT !.surface = Append(@, Steps[i])]
                 ELSE t
       IN IF i = t.failAt THEN Throw(t1, Steps[i]) ELSE RunSteps(t1, i + 1)

\* printer.js:300  printer.cut()
Cut(t) == [t EXCEPT !.surface = Append(@, "cut")]

\* mutant: the result of isPrinterConnected is not tested
NotConnectedIgnored(t) ==
  [t EXCEPT !.pc = "execute", !.surface = Append(@, "execute")]

\* printer.js:285-287, part_000:1227-1229  throw new Error(...), with the
\* message of the variant
NotConnected(t) ==
  Throw(t, IF t.impl = "printer.js" THEN "Printer not connected"
           ELSE "Printer not connected at CONFIG.PRINTER.interface")

\* printer.js:289-301  printOrder of printer.js after the printer reported
\* that it is connected: the steps, cut, and the call of execute
FormatAndExecute(t) ==
  LET t1 == RunSteps(t, 1)
  IN IF t1.pc = "thrown" THEN t1
     ELSE [Cut(t1) EXCEPT !.pc = "execute",
                          !.surface = Append(@, "execute")]

\* part_000:1153-1172  the cross-platform printOrder up to its first await:
\* the steps and cut, then printViaUSB (await getBuffer) or
\* printViaDirectInterface (await isPrinterConnected)
FormatThenSend(t) ==
  LET t1 == RunSteps(t, 1)
  IN IF t1.pc = "thrown" THEN t1
     ELSE [Cut(t1) EXCEPT !.pc = IF IS_WINDOWS(t.impl) THEN "getBuffer"
                                 ELSE "isPrinterConnected"]

\* printer.js:280-283, part_000:1149-1172  printOrder(order, kitchen) is
\* called, once the previous call is over, and runs to its first await
PrintOrder(impl, kitchen, failAt) ==
  /\ ticket.pc \in {"idle", "returned", "thrown"}
  /\ LET t == [NoTicket EXCEPT !.impl = impl, !.kitchen = kitchen,
                               !.failAt = failAt]
     IN ticket' = IF impl = "printer.js"
                  THEN [t EXCEPT !.pc = "isPrinterConnected"]
                  ELSE FormatThenSend(t)
  /\ UNCHANGED <<server, calc>>

\* printer.js:284-301, part_000:1226-1234  isPrinterConnected returned
ConnectedReported(connected) ==
  /\ ticket.pc = "isPrinterConnected"
  /\ LET t == [ticket EXCEPT !.connected = IF connected THEN "yes" ELSE "no"]
     IN ticket' = IF ~connected THEN NotConnected(t)
                  ELSE IF t.impl = "printer.js" THEN FormatAndExecute(t)
                  ELSE [t EXCEPT !.pc = "execute",
                                 !.surface = Append(@, "execute")]
  /\ UNCHANGED <<server, calc>>

\* printer.js:301-305, part_000:1234-1244  execute returned or threw
ExecuteDone(ok) ==
  /\ ticket.pc = "execute"
  /\ ticket' = IF ok THEN [ticket EXCEPT !.pc = "returned"]
                ELSE Throw(ticket, "execute failed")
  /\ UNCHANGED <<server, calc>>

\* part_000:1183-1192  getBuffer returned; the USB device is being opened
GetBufferDone ==
  /\ ticket.pc = "getBuffer"
  /\ ticket' = [ticket EXCEPT !.pc = "open"]
  /\ UNCHANGED <<server, calc>>

\* part_000:1192-1207  the callback of usbDevice.open: reject, or write
UsbOpened(ok) ==
  /\ ticket.pc = "open"
  /\ ticket' = IF ok THEN [ticket EXCEPT !.pc = "write",
                                         !.surface = Append(@, "write")]
                ELSE Throw(ticket, "open failed")
  /\ UNCHANGED <<server, calc>>

\* part_000:1207-1218  the callback of usbDevice.write: reject or resolve
UsbWritten(ok) ==
  /\ ticket.pc = "write"
  /\ ticket' = IF ok THEN [ticket EXCEPT !.pc = "returned"]
                ELSE Throw(ticket, "write failed")
  /\ UNCHANGED <<server, calc>>

\* printOrder on its own, call after call.
NextPrint ==
  \/ \E impl \in Impls, kitchen \in {"", KITCHEN_A, KITCHEN_B},
        failAt \in FailPoints : PrintOrder(impl, kitchen, failAt)
  \/ \E connected \in BOOLEAN : ConnectedReported(connected)
  \/ \E ok \in BOOLEAN : ExecuteDone(ok)
  \/ GetBufferDone
  \/ \E ok \in BOOLEAN : UsbOpened(ok)
  \/ \E ok \in BOOLEAN : UsbWritten(ok)

\* ------------------------------------------------ the orderItems module
\* No call of a function of the module has been made.
NoCalc == [fn |-> "", args |-> <<>>, result |-> <<>>]

\* The sequences over S of length at most n.
SeqsUpTo(S, n) == UNION { [1..k -> S] : k \in 0..n }

\* What groupItemsByKitchen reads of an item: its kitchenType (one of the
\* four of CONFIG.KITCHEN_TYPES, or "" for an item that carries none of
\* them) and its two flags.
ItemKinds ==
  [kitchenType : {KITCHEN_A, KITCHEN_B, KITCHEN_C, KITCHEN_Z, ""},
   appetizer : BOOLEAN, togo : BOOLEAN]

\* The items of a list of kinds: each is an object of its own, told apart
\* by its place in the input (id).
ItemsOf(kinds) ==
  [i \in DOMAIN kinds |-> [id |-> i, kitchenType |-> kinds[i].kitchenType,
                            appetizer |-> kinds[i].appetizer,
                            togo |-> kinds[i].togo]]

\* mutant: the kitchen filter does not exclude togo items
filterByKitchenKeepsTogo(kitchenType, item) ==
  item.kitchenType = kitchenType /\ ~item.appetizer

\* part_001:85-86  filterByKitchen(kitchenType)(item)
filterByKitchen(kitchenType, item) ==
  item.kitchenType = kitchenType /\ ~item.appetizer /\ ~item.togo

\* part_001:88-91  items.filter(filterByKitchen(...))
KitchenItems(items, kitchenType) ==
  SelectSeq(items, LAMBDA item : filterByKitchen(kitchenType, item))

\* mutant: the kitchens are listed in alphabetical order
SectionListAlphabetical(items) ==
  << [label |-> "Appetizers",
      items |-> SelectSeq(items, LAMBDA item : item.appetizer)],
     [label |-> "Kitchen A", items |-> KitchenItems(items, KITCHEN_A)],
     [label |-> "Kitchen B", items |-> KitchenItems(items, KITCHEN_B)],
     [label |-> "Kitchen C", items |-> KitchenItems(items, KITCHEN_C)],
     [label |-> "Kitchen Z", items |-> KitchenItems(items, KITCHEN_Z)] >>

\* part_001:83-99  the five sections that are always built
SectionList(items) ==
  << [label |-> "Appetizers",
      items |-> SelectSeq(items, LAMBDA item : item.appetizer)],
     [label |-> "Kitchen A", items |-> KitchenItems(items, KITCHEN_A)],
     [label |-> "Kitchen Z", items |-> KitchenItems(items, KITCHEN_Z)],
     [label |-> "Kitchen B", items |-> KitchenItems(items, KITCHEN_B)],
     [label |-> "Kitchen C", items |-> KitchenItems(items, KITCHEN_C)] >>

\* part_001:82-107  groupItemsByKitchen(items, excludeTogo)
groupItemsByKitchen(items, excludeTogo) ==
  LET sections == SectionList(items)
      togoItems ==
        SelectSeq(items, LAMBDA item : item.togo /\ ~item.appetizer)
      all == IF ~excludeTogo
             THEN Append(sections,
                         [label |-> "Togo Items", items |-> togoItems])
             ELSE sections
  IN SelectSeq(all, LAMBDA section : Len(section.items) > 0)

\* A field that is not set.
undefined == "undefined"

\* What preprocessOrderItem reads of an option: its name (one of the four
\* of CONFIG.OPTION_NAMES, or another one) and its quantity, where 0 stands
\* for a quantity that is not set (!opt.quantity holds for both).
OptionKinds ==
  [name : {EGG_ROLL, SPRING_ROLL, RICE, NOODLES, "Fried Rice"},
   quantity : {0, 2}]

\* The option objects of a list of kinds, told apart by their place (id).
OptionsOf(kinds) ==
  [i \in DOMAIN kinds |-> [id |-> i, name |-> kinds[i].name,
                            quantity |-> kinds[i].quantity]]

\* The heap a call of preprocessOrderItem starts from: the item is object 1;
\* its options field refers to array 1, or is 0 when the item has no
\* options array.  A quantity of 0 stands for one that is not set.
Heap0(name, quantity, hasOptions, kinds) ==
  [objs |-> << [name |-> name, quantity |-> quantity,
                options |-> IF hasOptions THEN 1 ELSE 0,
                displayName |-> undefined] >>,
   arrs |-> IF hasOptions THEN << OptionsOf(kinds) >> ELSE << >>]

\* processed.options, the array object p refers to
Options(h, p) == h.arrs[h.objs[p].options]

\* Array.prototype.find: the place of the first element that satisfies
\* Pred, or 0
Find(opts, Pred(_)) ==
  LET hits == { i \in DOMAIN opts : Pred(opts[i]) }
  IN IF hits = {} THEN 0 ELSE CHOOSE i \in hits : \A j \in hits : i <= j

\* part_001:9  const processed = { ...item }: a new object with the fields
\* of the item; it shares the options array
Spread(h) == [h EXCEPT !.objs = Append(@, h.objs[1])]

\* mutant: the found option is removed from the array in place
FilterInPlace(h, p, opt) ==
  [h EXCEPT !.arrs[h.objs[p].options] =
              SelectSeq(@, LAMBDA o : o.id # opt.id)]

\* part_001:28, 43-45, 58-60  processed.options =
\* processed.options.filter((opt) => opt !== found): a new array
Filter(h, p, opt) ==
  [h EXCEPT !.arrs = Append(@, SelectSeq(Options(h, p),
                                         LAMBDA o : o.id # opt.id)),
            !.objs[p].options = Len(h.arrs) + 1]

\* part_001:27, 42, 57  processed.name = `${processed.name}/${suffix}`
AppendName(h, p, suffix) ==
  [h EXCEPT !.objs[p].name = @ \o "/" \o suffix]

\* part_001:19-30  the special-item rule
SpecialItemRule(h, p) ==
  IF h.objs[p].name = SPECIAL_ITEM
  THEN LET opts == Options(h, p)
           i == Find(opts, LAMBDA opt : opt.name # EGG_ROLL
                                        /\ opt.name # SPRING_ROLL)
       IN IF i # 0
          THEN Filter(AppendName(h, p, opts[i].name), p, opts[i])
          ELSE h
  ELSE h

\* part_001:32-46  the egg-roll / spring-roll rule
EggSpringRule(h, p) ==
  LET opts == Options(h, p)
      i == Find(opts, LAMBDA opt :
                  /\ opt.name = EGG_ROLL \/ opt.name = SPRING_ROLL
                  /\ opt.quantity = 0 \/ opt.quantity <= 1)
  IN IF i # 0
     THEN Filter(AppendName(h, p, IF opts[i].name = EGG_ROLL
                                  THEN "ER" ELSE "SP"), p, opts[i])
     ELSE h

\* part_001:48-61  the rice / noodle rule
RiceNoodleRule(h, p) ==
  LET opts == Options(h, p)
      i == Find(opts, LAMBDA opt : opt.name = RICE \/ opt.name = NOODLES)
  IN IF i # 0
     THEN Filter(AppendName(h, p, IF opts[i].name = RICE
                                  THEN "Rice" ELSE "ND"), p, opts[i])
     ELSE h

\* mutant: the egg-roll rule runs before the special-item rule
RewriteEggFirst(h, p) ==
  RiceNoodleRule(SpecialItemRule(EggSpringRule(h, p), p), p)

\* part_001:19-61  the three rules, in the order of the code
Rewrite(h, p) == RiceNoodleRule(EggSpringRule(SpecialItemRule(h, p), p), p)

\* mutant: the quantity is always shown
DisplayNameAlways(quantity, name) == ToString(quantity) \o "x " \o name

\* part_001:12-15, 63-66  quantity > 1 ? `${quantity}x ${name}` : name
DisplayName(quantity, name) ==
  IF quantity > 1 THEN ToString(quantity) \o "x " \o name ELSE name

\* part_001:12-16, 63-68  processed.displayName = ...
SetDisplayName(h, p) ==
  [h EXCEPT !.objs[p].displayName =
              DisplayName(h.objs[p].quantity, h.objs[p].name)]

\* part_001:8-69  preprocessOrderItem(item), called on the item of heap h:
\* the heap it leaves; the object it returns is the last one of the heap
preprocessOrderItem(h) ==
  LET h1 == Spread(h)
      p == Len(h1.objs)
  IN IF h1.objs[p].options = 0 \/ Len(Options(h1, p)) = 0
     THEN SetDisplayName(h1, p)
     ELSE SetDisplayName(Rewrite(h1, p), p)

\* part_001:8  preprocessOrderItem is called with an item
PreprocessItem(name, quantity, hasOptions, kinds) ==
  /\ calc.fn = ""
  /\ hasOptions \/ kinds = << >>
  /\ LET h == Heap0(name, quantity, hasOptions, kinds)
     IN calc' = [fn |-> "preprocessOrderItem", args |-> <<h>>,
                 result |-> preprocessOrderItem(h)]
  /\ UNCHANGED <<server, ticket>>

\* --- getOrderTotals.  A JavaScript value is a record with its typeof in
\* field t: a number (field v, an amount in hundredths of a cent, so that
\* the taxes of an amount in cents are whole), a string, undefined, or an
\* object with fields of its own.  Arithmetic is exact.
Num(n) == [t |-> "number", v |-> n]
Undef == [t |-> "undefined"]
Str == [t |-> "string"]

\* obj.field: the value of the field, undefined when the object has none
Get(obj, field) == IF field \in DOMAIN obj THEN obj[field] ELSE Undef

\* a ?? b
Nullish(a, b) == IF a.t = "undefined" THEN b ELSE a

\* a || b, for a an object or undefined
OrElse(a, b) == IF a.t = "object" THEN a ELSE b

\* mutant: the grand total is recomputed from the three trusted fields
TrustedSummed(tb, fallbackSubtotal) ==
  LET subtotal == IF Get(tb, "total").t = "number" THEN Get(tb, "total")
                  ELSE Nullish(fallbackSubtotal, Num(0))
      pst == IF Get(tb, "pst").t = "number" THEN Get(tb, "pst") ELSE Num(0)
      gst == IF Get(tb, "gst").t = "number" THEN Get(tb, "gst") ELSE Num(0)
  IN [t |-> "object", subtotal |-> subtotal, pst |-> pst, gst |-> gst,
      grandTotal |-> Num(subtotal.v + pst.v + gst.v)]

\* part_001:115-118  the breakdown is trusted, field by field
Trusted(tb, fallbackSubtotal) ==
  LET subtotal == IF Get(tb, "total").t = "number" THEN Get(tb, "total")
                  ELSE Nullish(fallbackSubtotal, Num(0))
      pst == IF Get(tb, "pst").t = "number" THEN Get(tb, "pst") ELSE Num(0)
      gst == IF Get(tb, "gst").t = "number" THEN Get(tb, "gst") ELSE Num(0)
  IN [t |-> "object", subtotal |-> subtotal, pst |-> pst, gst |-> gst,
      grandTotal |-> Get(tb, "grandTotal")]

\* part_001:120-123  the totals are computed from the subtotal
Computed(order, fallbackSubtotal) ==
  LET sub == Nullish(fallbackSubtotal, Nullish(Get(order, "total"), Num(0)))
      pst == Num((sub.v * PST_PERCENT) \div 100)
      gst == Num((sub.v * GST_PERCENT) \div 100)
  IN [t |-> "object", subtotal |-> sub, pst |-> pst, gst |-> gst,
      grandTotal |-> Num(sub.v + pst.v + gst.v)]

\* part_001:112-124  getOrderTotals(order, fallbackSubtotal)
getOrderTotals(order, fallbackSubtotal) ==
  LET tb == OrElse(Get(order, "taxBreakDown"), Get(order, "taxbreakdown"))
  IN IF tb.t = "object" /\ Get(tb, "grandTotal").t = "number"
     THEN Trusted(tb, fallbackSubtotal)
     ELSE Computed(order, fallbackSubtotal)

\* The breakdowns an order may carry: none, or an object whose fields are
\* numbers or missing, and whose grandTotal may also be a string.
Breakdowns ==
  {Undef} \cup
  { [t |-> "object", total |-> tot, pst |-> p, gst |-> g, grandTotal |-> gt] :
      tot \in {Undef, Num(100000)}, p \in {Undef, Num(6000)},
      g \in {Undef, Num(5000)},
      gt \in {Undef, Str, Num(0), Num(111000)} }

\* The orders: total is a number of cents or missing.
Orders ==
  { [t |-> "object", total |-> tot, taxBreakDown |-> tb, taxbreakdown |-> lb] :
      tot \in {Undef, Num(0), Num(100000), Num(250000)},
      tb \in Breakdowns,
      lb \in {Undef, [t |-> "object", grandTotal |-> Num(70000)]} }

\* The second argument of getOrderTotals.
Fallbacks == {Undef, Num(0), Num(50000)}

\* printer.js:207, 266  getOrderTotals is called
Totals(order, fallbackSubtotal) ==
  /\ calc.fn = ""
  /\ calc' = [fn |-> "getOrderTotals", args |-> <<order, fallbackSubtotal>>,
              result |-> getOrderTotals(order, fallbackSubtotal)]
  /\ UNCHANGED <<server, ticket>>

\* getOrderTotals is called again, on the same order with the result of
\* the first call stored as its breakdown: as taxBreakDown, or as
\* taxbreakdown when the order has no taxBreakDown object (line 113 reads
\* the second spelling only then)
TotalsAgain(field, fallbackSubtotal) ==
  /\ calc.fn = "getOrderTotals"
  /\ field = "taxbreakdown" => calc.args[1].taxBreakDown.t # "object"
  /\ LET order == [calc.args[1] EXCEPT ![field] = calc.result]
     IN calc' = [fn |-> "getOrderTotals twice",
                 args |-> <<order, fallbackSubtotal, calc.result>>,
                 result |-> getOrderTotals(order, fallbackSubtotal)]
  /\ UNCHANGED <<server, ticket>>

\* --- calculateTogoTotal.  A price is a JavaScript number, an IEEE 754
\* double.  The doubles modelled are the non-negative multiples of 2^-56
\* below 2^24, which include 0.1, 0.2 and 0.3 as JavaScript reads them:
\* [h, m, l] is the number (h * 2^56 + m * 2^28 + l) * 2^-56, so h is its
\* integer part and m, l are its first and last 28 binary places.  A price
\* of zero also stands for one that is not set (price || 0), a quantity of
\* 0 for one that is not set (quantity || 1), and the empty list for
\* options, extras or changes that are not set (?.length > 0).
Limb == 2^28

\* part_001:133  the significand of a double has 53 bits
Significand == 53

Zero == [h |-> 0, m |-> 0, l |-> 0]

\* the doubles nearest to 0.1, 0.2 and 0.3, and 1.5 and 5
Tenth == [h |-> 0, m |-> 26843545, l |-> 161061274]
Fifth == [h |-> 0, m |-> 53687091, l |-> 53687092]
ThreeTenths == [h |-> 0, m |-> 80530636, l |-> 214748364]
OneAndHalf == [h |-> 1, m |-> 134217728, l |-> 0]
Five == [h |-> 5, m |-> 0, l |-> 0]

\* the carries of an exact sum or product
Carry(h, m, l) ==
  LET m1 == m + l \div Limb
  IN [h |-> h + m1 \div Limb, m |-> m1 % Limb, l |-> l % Limb]

\* the number of bits of n < 2^28
BitLength(n) ==
  IF n = 0 THEN 0 ELSE CHOOSE b \in 1..28 : 2^(b - 1) <= n /\ n < 2^b

\* the number of bits of an exact sum or product
Bits(x) ==
  IF x.h > 0 THEN 56 + BitLength(x.h)
  ELSE IF x.m > 0 THEN 28 + BitLength(x.m) ELSE BitLength(x.l)

\* IEEE 754 rounding of an exact result to the nearest double, ties to
\* even: the k bits below the 53 of the significand are dropped
RoundToDouble(x) ==
  LET k == Bits(x) - Significand
  IN IF k <= 0 THEN x
     ELSE LET unit == 2^k
              rest == x.l % unit
              odd == (x.l \div unit) % 2 = 1
              up == 2 * rest > unit \/ (2 * rest = unit /\ odd)
          IN Carry(x.h, x.m, x.l - rest + (IF up THEN unit ELSE 0))

\* part_001:137, 144, 151, 156  a + b
Add(a, b) == RoundToDouble(Carry(a.h + b.h, a.m + b.m, a.l + b.l))

\* part_001:133  price * quantity, quantity a small whole number
Multiply(price, quantity) ==
  RoundToDouble(Carry(price.h * quantity, price.m * quantity,
                      price.l * quantity))

RECURSIVE SumPrices(_, _)
\* part_001:136-139  list.reduce((t, x) => t + (x.price || 0), 0)
SumPrices(list, t) ==
  IF Len(list) = 0 THEN t
  ELSE SumPrices(Tail(list), Add(t, Head(list).price))

\* part_001:135-154  itemTotal += the sum of a list that is not empty
AddPrices(itemTotal, list) ==
  IF Len(list) > 0 THEN Add(itemTotal, SumPrices(list, Zero)) ELSE itemTotal

\* part_001:133-154  itemTotal
ItemTotal(item) ==
  AddPrices(AddPrices(AddPrices(
    Multiply(item.price, IF item.quantity = 0 THEN 1 ELSE item.quantity),
    item.options), item.extras), item.changes)

RECURSIVE Reduce(_, _)
\* part_001:132-157  togoItems.reduce((total, item) => total + itemTotal,
\* total), from the left
Reduce(items, total) ==
  IF Len(items) = 0 THEN total
  ELSE Reduce(Tail(items), Add(total, ItemTotal(Head(items))))

\* part_001:129-158  calculateTogoTotal(togoItems); isArray tells whether
\* the argument is an array
calculateTogoTotal(isArray, togoItems) ==
  IF ~isArray \/ Len(togoItems) = 0 THEN Zero ELSE Reduce(togoItems, Zero)

\* The togo items: plain items of price 0.1, 0.2, 0.3 or none, and items
\* of price 5 and quantity 3 with options, extras and changes.
TogoKinds ==
  { [price |-> p, quantity |-> 0, options |-> << >>, extras |-> << >>,
     changes |-> << >>] : p \in {Zero, Tenth, Fifth, ThreeTenths} }
  \cup
  { [price |-> Five, quantity |-> 3, options |-> a[1], extras |-> a[2],
     changes |-> a[3]] :
      a \in { << <<[price |-> OneAndHalf], [price |-> Zero]>>, << >>,
                 <<[price |-> Tenth]>> >>,
              << << >>, <<[price |-> Fifth]>>, << >> >> } }

\* printer.js:265  calculateTogoTotal is called on a list, and on the two
\* parts the list splits into after its k-th item
TogoTotal(items, k) ==
  /\ calc.fn = ""
  /\ k \in 0..Len(items)
  /\ LET X == SubSeq(items, 1, k)
         Y == SubSeq(items, k + 1, Len(items))
     IN calc' = [fn |-> "calculateTogoTotal", args |-> <<X, Y>>,
                 result |-> [whole |-> calculateTogoTotal(TRUE, X \o Y),
                             x |-> calculateTogoTotal(TRUE, X),
                             y |-> calculateTogoTotal(TRUE, Y)]]
  /\ UNCHANGED <<server, ticket>>

\* part_001:130  calculateTogoTotal is called on something that is not an
\* array
TogoTotalNoList ==
  /\ calc.fn = ""
  /\ calc' = [fn |-> "calculateTogoTotal of no list", args |-> << >>,
              result |-> calculateTogoTotal(FALSE, << >>)]
  /\ UNCHANGED <<server, ticket>>

\* printer.js:290, part_001:82  groupItemsByKitchen is called with a list of
\* items, with or without its second argument
GroupItems(kinds, excludeTogo) ==
  /\ calc.fn = ""
  /\ calc' = [fn |-> "groupItemsByKitchen",
              args |-> <<ItemsOf(kinds), excludeTogo>>,
              result |-> groupItemsByKitchen(ItemsOf(kinds), excludeTogo)]
  /\ UNCHANGED <<server, ticket>>

\* The functions of the module, each called once on an input of its own.
NextItems ==
  \/ /\ calc.fn = ""
     /\ \/ \E kinds \in SeqsUpTo(ItemKinds, MaxItems),
             excludeTogo \in BOOLEAN :
             GroupItems(kinds, excludeTogo)
        \/ \E name \in {SPECIAL_ITEM, "Wonton"}, quantity \in 0..2,
             hasOptions \in BOOLEAN,
             kinds \in SeqsUpTo(OptionKinds, MaxOptions) :
             PreprocessItem(name, quantity, hasOptions, kinds)
        \/ \E order \in Orders, fallbackSubtotal \in Fallbacks :
             Totals(order, fallbackSubtotal)
        \/ \E items \in SeqsUpTo(TogoKinds, MaxTogo), k \in 0..MaxTogo :
             TogoTotal(items, k)
        \/ TogoTotalNoList
  \/ \E field \in {"taxBreakDown", "taxbreakdown"},
        fallbackSubtotal \in Fallbacks :
        TotalsAgain(field, fallbackSubtotal)

\* ------------------------------------------------------------------ Init
Init ==
  /\ printQueue = <<>>
  /\ isPrinting = FALSE
  /\ active = {}
  /\ records = AllRecords
  /\ printed = {}
  /\ durable = {}
  /\ placed = {}
  /\ listener = "disconnected"
  /\ connects = 1
  /\ seen = {}
  /\ fresh = FALSE
  /\ modified = {}
  /\ feedErrors = 0
  /\ pushed = 0
  /\ started = <<>>
  /\ done = {}
  /\ last = NoLast
  /\ ticket = NoTicket
  /\ calc = NoCalc

\* --------------------------------------------------------------- actions
\* server.js:116-117  one enqueue: push, then a call of processQueue
\* (at most max of them are explored)
EnqueueUpTo(job, max) ==
  /\ pushed < max
  /\ pushed' = pushed + 1
  /\ SetWorker(processQueue(Push(Cur, [id |-> job.id,
                                       orderType |-> job.orderType,
                                       printId |-> job.printId,
                                       tok |-> pushed + 1])))
  /\ UNCHANGED <<ticket, calc, records, printed, durable, feed>>

\* printer.js:283-303  isPrinterConnected returned: the throw of line 286,
\* or the formatting sections, cut, and the call of execute
IsPrinterConnectedReturn(a, connected, formatOk) ==
  /\ a.pc = "isPrinterConnected"
  /\ IF connected /\ formatOk
     THEN SetWorker([Cur EXCEPT !.active = (@ \ {a}) \cup
             {[a EXCEPT !.pc = "execute",
                        !.trace = Append(@, <<"commit", a.kitchen>>)]}])
     ELSE SetWorker(PrintFailed(Cur, a))
  /\ UNCHANGED <<ticket, calc, records, printed, durable, pushed, feed>>

\* printer.js:301-305  execute returned or threw
ExecuteReturn(a, ok) ==
  /\ a.pc = "execute"
  /\ SetWorker(IF ok THEN PrintReturned(Cur, a) ELSE PrintFailed(Cur, a))
  /\ UNCHANGED <<ticket, calc, records, printed, durable, pushed, feed>>

\* server.js:53-70  orderRef.get() returned a snapshot or threw
GetReturn(a, ok) ==
  /\ a.pc = "get"
  /\ LET exists == OrderRef(a.order) \in records
         res == IF ~ok THEN "error" ELSE IF exists THEN "exists" ELSE "missing"
         a1 == [a EXCEPT !.trace = Append(@, <<"getDone", res>>)]
     IN SetWorker(
          IF ShouldUpdate(res)
          THEN [Cur EXCEPT !.active = (@ \ {a}) \cup
                  {[a1 EXCEPT !.pc = "update",
                              !.trace = Append(@, <<"update",
                                   CollectionName(a.order.orderType)>>)]}]
          ELSE IF res = "error" THEN FlagFailed(Cur, a, a1)
          ELSE Finally(Cur, a, a1))
  /\ UNCHANGED <<ticket, calc, records, printed, durable, pushed, feed>>

\* mutant: the flag is written with set(..., {merge: true}), which creates
\* the document when it does not exist
SetMerge(r, recs, flags) ==
  [ok |-> TRUE, records |-> recs \cup {r}, printed |-> flags \cup {r}]

\* server.js:56-58  orderRef.update({printed: true}) on the documents recs
\* with their flags: an update of a document that does not exist fails
\* and writes nothing
Update(r, recs, flags) ==
  IF r \in recs
  THEN [ok |-> TRUE, records |-> recs, printed |-> flags \cup {r}]
  ELSE [ok |-> FALSE, records |-> recs, printed |-> flags]

\* server.js:56-70  orderRef.update({printed: true}) returned or threw
\* (reached says whether the call got to the documents at all)
UpdateReturn(a, reached) ==
  /\ a.pc = "update"
  /\ LET res == IF reached THEN Update(OrderRef(a.order), records, printed)
                ELSE [ok |-> FALSE, records |-> records, printed |-> printed]
         a1 == [a EXCEPT !.trace = Append(@, <<"updateDone",
                                        IF res.ok THEN "ok" ELSE "error">>)]
     IN /\ records' = res.records
        /\ printed' = res.printed
        /\ SetWorker(IF res.ok THEN Finally(Cur, a, a1)
                     ELSE FlagFailed(Cur, a, a1))
  /\ UNCHANGED <<ticket, calc, durable, pushed, feed>>

\* server.js:76-91  the delete of the printQueue document returned or threw
\* (a deleted document is no longer a modified one)
DeleteReturn(a, ok) ==
  /\ a.pc = "delete"
  /\ durable' = IF ok THEN durable \ {a.order.printId} ELSE durable
  /\ LET a1 == [a EXCEPT !.trace = Append(@, <<"deleteDone",
                                        IF ok THEN "ok" ELSE "error">>)]
     IN SetWorker(IF ok THEN Finish(Cur, a, a1) ELSE DeleteFailed(Cur, a, a1))
  /\ modified' = IF ok THEN modified \ {a.order.printId} ELSE modified
  /\ UNCHANGED <<records, printed, pushed, placed, listener, connects, seen,
                 fresh, feedErrors, ticket, calc>>

\* server.js:116-117  one enqueue, within the bound on push calls
Enqueue(job) == EnqueueUpTo(job, MaxPush)

\* Another client deletes an order's source-of-truth record.
RemoveRecord(r) ==
  /\ r \in records
  /\ records' = records \ {r}
  /\ printed' = printed \ {r}
  /\ last' = NoLast
  /\ UNCHANGED <<printQueue, isPrinting, active, durable, pushed, started,
                 done, feed, ticket, calc>>

\* ------------------------------------------------ the printQueue listener
\* The documents of the printQueue collection, in document-id order, and
\* the order each of them holds (change.doc.data()).
DocOrder == <<"d1", "d2", "d3">>
Docs == { DocOrder[i] : i \in DOMAIN DocOrder }
DocData(d) == CHOOSE j \in JobInputs : j.printId = d

\* server.js:110  snapshot.docChanges(): the documents that left the result
\* since the previous snapshot ("removed"), then those that entered it
\* ("added"), then those of both whose data changed ("modified"), each group
\* in document order.  Every change carries its document (change.doc).
DocChanges(old, new, mod) ==
  SelectSeq(DocOrder, LAMBDA d : d \in old /\ d \notin new) \o
  SelectSeq(DocOrder, LAMBDA d : d \in new /\ d \notin old) \o
  SelectSeq(DocOrder, LAMBDA d : d \in new /\ d \in old /\ d \in mod)

\* mutant: the order is pushed as it is stored, without the document id
RECURSIVE ForEachChangeNoPrintId(_, _, _)
ForEachChangeNoPrintId(w, changes, n) ==
  IF Len(changes) = 0 THEN w
  ELSE LET d == Head(changes)
           order == [id |-> DocData(d).id,
                     orderType |-> DocData(d).orderType,
                     printId |-> NoPrintId, tok |-> n + 1]
       IN ForEachChangeNoPrintId(processQueue(Push(w, order)),
                                 Tail(changes), n + 1)

\* server.js:110-119  the forEach over the changes: for each one, the order
\* with printId set to the document id is pushed and processQueue is called
RECURSIVE ForEachChange(_, _, _)
ForEachChange(w, changes, n) ==
  IF Len(changes) = 0 THEN w
  ELSE LET d == Head(changes)
           order == [id |-> DocData(d).id,
                     orderType |-> DocData(d).orderType,
                     printId |-> d, tok |-> n + 1]
       IN ForEachChange(processQueue(Push(w, order)), Tail(changes), n + 1)

\* mutant: the callback clears the busy flag before it enqueues, so the
\* worker starts over
OnSnapshotResetsBusy(w, old, new, mod, n) ==
  IF new = {} THEN w
  ELSE ForEachChange([w EXCEPT !.isPrinting = FALSE],
                     DocChanges(old, new, mod), n)

\* mutant: no early return on snapshot.empty
OnSnapshotNoEmptyCheck(w, old, new, mod, n) ==
  ForEachChange(w, DocChanges(old, new, mod), n)

\* server.js:104-120  the snapshot callback
OnSnapshot(w, old, new, mod, n) ==
  IF new = {} THEN w ELSE ForEachChange(w, DocChanges(old, new, mod), n)

\* Another client adds a document to the printQueue collection.
AddDoc(d) ==
  /\ d \notin placed
  /\ placed' = placed \cup {d}
  /\ durable' = durable \cup {d}
  /\ last' = NoLast
  /\ UNCHANGED <<printQueue, isPrinting, active, records, printed, listener,
                 connects, seen, fresh, modified, feedErrors, pushed, started,
                 done, ticket, calc>>

\* Another client changes the data of a document of the printQueue
\* collection that the listener's previous snapshot held.
ModifyDoc(d) ==
  /\ listener = "listening" /\ ~fresh
  /\ d \in seen \cap durable
  /\ d \notin modified
  /\ modified' = modified \cup {d}
  /\ last' = NoLast
  /\ UNCHANGED <<printQueue, isPrinting, active, records, printed, durable,
                 placed, listener, connects, seen, fresh, feedErrors, pushed,
                 started, done, ticket, calc>>

\* mutant: the error is logged and no reconnect is scheduled
ScheduleNone(n) == n

\* server.js:124, 132  setTimeout(connect, retryDelay): one more call of
\* connect is pending
ScheduleConnect(n) == n + 1

\* server.js:99-134  a scheduled call of connect runs: onSnapshot registers
\* the callbacks, or throws and the catch schedules the next call
Connect(ok) ==
  /\ connects > 0
  /\ IF ok
     THEN /\ listener' = "listening"
          /\ connects' = connects - 1
          /\ seen' = {}
          /\ fresh' = TRUE
          /\ modified' = {}
     ELSE /\ connects' = ScheduleConnect(connects - 1)
          /\ UNCHANGED <<listener, seen, fresh, modified>>
  /\ last' = NoLast
  /\ UNCHANGED <<printQueue, isPrinting, active, records, printed, durable,
                 placed, feedErrors, pushed, started, done, ticket, calc>>

\* server.js:104-120  the feed delivers a snapshot: the first one of a
\* subscription, or one after the collection changed (at most max push
\* calls are explored)
SnapshotUpTo(max) ==
  /\ listener = "listening"
  /\ fresh \/ durable # seen \/ modified \cap durable # {}
  /\ LET n == IF durable = {} THEN 0
              ELSE Len(DocChanges(seen, durable, modified))
     IN /\ pushed + n <= max
        /\ pushed' = pushed + n
  /\ SetWorker(OnSnapshot(Cur, seen, durable, modified, pushed))
  /\ seen' = durable
  /\ fresh' = FALSE
  /\ modified' = {}
  /\ UNCHANGED <<ticket, calc, records, printed, durable, placed, listener,
                 connects,
                 feedErrors>>

\* server.js:104-120  a snapshot, within the bound on push calls
Snapshot == SnapshotUpTo(MaxFeedPush)

\* server.js:121-125  the error callback of the subscription
FeedError ==
  /\ listener = "listening"
  /\ feedErrors < MaxFeedErrors
  /\ feedErrors' = feedErrors + 1
  /\ listener' = "disconnected"
  /\ connects' = ScheduleConnect(connects)
  /\ modified' = {}
  /\ last' = NoLast
  /\ UNCHANGED <<printQueue, isPrinting, active, records, printed, durable,
                 placed, seen, fresh, pushed, started, done, ticket, calc>>

\* An awaited call of some activation returns.
WorkerStep ==
  \E a \in active :
    \/ \E c \in BOOLEAN, f \in BOOLEAN : IsPrinterConnectedReturn(a, c, f)
    \/ \E ok \in BOOLEAN : ExecuteReturn(a, ok)
    \/ \E ok \in BOOLEAN : GetReturn(a, ok)
    \/ \E ok \in BOOLEAN : UpdateReturn(a, ok)
    \/ \E ok \in BOOLEAN : DeleteReturn(a, ok)

\* The dispatch queue under arbitrary enqueue calls.
NextQ ==
  \/ \E job \in JobInputs : Enqueue(job)
  \/ WorkerStep
  \/ \E r \in AllRecords : RemoveRecord(r)

SpecQ == Init /\ [][NextQ]_vars

\* The same, when every awaited print, get, update and delete call returns.
LiveNextQ ==
  \/ \E job \in JobInputs : EnqueueUpTo(job, MaxLivePush)
  \/ WorkerStep
  \/ \E r \in AllRecords : RemoveRecord(r)

LiveSpecQ == Init /\ [][LiveNextQ]_vars /\ WF_vars(WorkerStep)

\* The whole server: the listener feeds the queue.
Next ==
  \/ \E d \in Docs : AddDoc(d)
  \/ \E d \in Docs : ModifyDoc(d)
  \/ \E ok \in BOOLEAN : Connect(ok)
  \/ Snapshot
  \/ FeedError
  \/ WorkerStep
  \/ \E r \in AllRecords : RemoveRecord(r)

Spec == Init /\ [][Next]_vars

\* The server while its subscription stays up and the records and the
\* data of the queue documents are left alone: documents are added, the
\* listener feeds the queue and the worker deletes what it has processed.
NextRemoval ==
  \/ \E d \in Docs : AddDoc(d)
  \/ \E ok \in BOOLEAN : Connect(ok)
  \/ SnapshotUpTo(MaxRemovalPush)
  \/ WorkerStep

SpecRemoval == Init /\ [][NextRemoval]_vars

SpecPrint == Init /\ [][NextPrint]_vars

SpecItems == Init /\ [][NextItems]_vars

\* ------------------------------------------------- reading the histories
\* The events of a trace with the given name, in order.
Events(trace, name) == SelectSeq(trace, LAMBDA e : e[1] = name)

\* The destination tags of the emissions of a trace, in order.
Emissions(trace) ==
  [i \in 1..Len(Events(trace, "print")) |-> Events(trace, "print")[i][2]]

Range(f) == { f[i] : i \in DOMAIN f }
Toks(q) == { q[i].tok : i \in DOMAIN q }
ActiveToks == { a.order.tok : a \in active }

\* Some activation finished in the latest step.
JustFinished == last # NoLast

\* --------------------------------------------------------------- claims
\* C1: at most one job is in flight at any time: no reachable state has two
\* processQueue activations past the busy check, however enqueue calls
\* interleave with a running activation.
C1_OneInFlight == Cardinality(active) <= 1

\* C1 witness: an enqueue arrived while an activation was running and its
\* processQueue call started nothing.
C1_Witness ==
  isPrinting /\ Cardinality(active) = 1 /\ Len(printQueue) >= 1

\* C2: every enqueued job is dequeued and processed exactly once: a job is
\* in exactly one of buffer, in flight, done; no job is dequeued twice; a
\* done job (print failed or not) is never back in the buffer or in flight;
\* and once the queue is quiet all N pushed jobs were attempted, N attempts
\* in total.
C2_ExactlyOnce ==
  /\ \A i, j \in DOMAIN started : i # j => started[i].tok # started[j].tok
  /\ \A i, j \in DOMAIN printQueue :
        i # j => printQueue[i].tok # printQueue[j].tok
  /\ Toks(printQueue) \cap ActiveToks = {}
  /\ done \cap (Toks(printQueue) \cup ActiveToks) = {}
  /\ Toks(printQueue) \cup ActiveToks \cup done = 1..pushed
  /\ Toks(started) = ActiveToks \cup done
  /\ (Len(printQueue) = 0 /\ active = {}) =>
        (Len(started) = pushed /\ done = 1..pushed)

\* C2 witness: several jobs were enqueued, all are done, the last by a
\* failed print, and the queue is quiet.
C2_Witness ==
  /\ pushed >= 2 /\ done = 1..pushed
  /\ Len(printQueue) = 0 /\ active = {}
  /\ JustFinished /\ ~last.printSucceeded

\* C3: jobs are processed in the order of their push: the k-th job dequeued
\* is the k-th job pushed, and the buffer holds the later jobs in push order.
C3_Fifo ==
  /\ \A i \in DOMAIN started : started[i].tok = i
  /\ \A i \in DOMAIN printQueue : printQueue[i].tok = Len(started) + i

\* C3 witness: the second job is in flight after the first, while a third
\* one, pushed during the processing, waits in the buffer.
C3_Witness ==
  /\ Len(started) = 2 /\ ActiveToks = {2}
  /\ Len(printQueue) = 1 /\ printQueue[1].tok = 3


\* C4: no job of the durable queue is duplicated: a document placed in the
\* printQueue collection is handed to the worker and processed once, so no
\* two dequeued jobs carry the same printId.
C4_NoDuplicate ==
  \A i, j \in DOMAIN started :
    i # j => started[i].printId # started[j].printId

\* C5: the buffer is drained without a further enqueue: when every awaited
\* call returns, every pushed job reaches done and the system returns again
\* and again to an empty buffer with the busy flag false.
C5_Drains ==
  /\ \A t \in 1..MaxLivePush : (pushed >= t) ~> (t \in done)
  /\ []<>(Len(printQueue) = 0 /\ ~isPrinting /\ active = {})

\* C5 witness: a job left in the buffer by its own enqueue (the worker was
\* busy) has been started by the call of processQueue that ends the
\* previous job.
C5_Witness ==
  /\ JustFinished
  /\ \E a \in active : a.order.tok = last.order.tok + 1

\* The traces to judge: the one just finished and those in flight.
Traces ==
  { [order |-> a.order, trace |-> a.trace, finished |-> FALSE] : a \in active }
  \cup (IF JustFinished
        THEN {[order |-> last.order, trace |-> last.trace, finished |-> TRUE]}
        ELSE {})

\* C6 as stated: a finished TakeOut job has issued exactly the two emissions
\* "B" then "A", a finished job of any other type exactly one emission with
\* the empty tag.
C6_TwoEmissions ==
  JustFinished =>
    Emissions(last.trace) =
      IF last.order.orderType = "Take Out" THEN <<"B", "A">> ELSE <<"">>

\* C6 amended: for a TakeOut job the emission to "B" comes first and the one
\* to "A" is issued only after "B" has completed without error, so a
\* finished TakeOut job has emissions B, A when B succeeded and B alone when
\* B failed; a job of any other type has exactly one emission, untagged.
C6_Emissions ==
  \A t \in Traces :
    LET em == Emissions(t.trace)
    IN IF t.order.orderType = "Take Out"
       THEN /\ em \in {<<"B">>, <<"B", "A">>}
            /\ \A i \in DOMAIN t.trace :
                  t.trace[i] = <<"print", "A">> =>
                    i > 1 /\ t.trace[i - 1] = <<"printDone", "ok">>
            /\ t.finished =>
                  (Len(em) = 2 <=>
                     Events(t.trace, "printDone")[1] = <<"printDone", "ok">>)
       ELSE em = <<"">>

\* C6 witness: a TakeOut job finished after both emissions, B then A.
C6_Witness ==
  /\ JustFinished /\ last.order.orderType = "Take Out"
  /\ Emissions(last.trace) = <<"B", "A">>

\* C7: for every dequeued job that carries a printId the deletion of the
\* printQueue entry with that printId is attempted exactly once, whatever
\* the outcome of the print and of the printed-flag step.
C7_DeleteOnce ==
  \A t \in Traces :
    HasPrintId(t.order) =>
      /\ \A i \in DOMAIN Events(t.trace, "delete") :
            Events(t.trace, "delete")[i] = <<"delete", t.order.printId>>
      /\ Len(Events(t.trace, "delete")) <= 1
      /\ t.finished => Len(Events(t.trace, "delete")) = 1

\* C7 witness: a job with a printId finished after a failed print and one
\* deletion attempt.
C7_Witness ==
  /\ JustFinished /\ last.order.printId # "" /\ ~last.printSucceeded
  /\ Len(Events(last.trace, "delete")) = 1

\* C8 as stated: for every finished job, print succeeded or not, the update
\* of the printed flag was attempted when the record still exists.
C8_UpdateWheneverExists ==
  (JustFinished /\ OrderRef(last.order) \in records) =>
    Len(Events(last.trace, "update")) = 1

\* C8 amended: a job whose emissions all succeeded reads the record once and
\* attempts the update exactly when that read reports the record exists; a
\* job with a failed emission issues no read and no update.
C8_UpdateAfterSuccess ==
  JustFinished =>
    /\ Len(Events(last.trace, "get")) = (IF last.printSucceeded THEN 1 ELSE 0)
    /\ Len(Events(last.trace, "update")) =
         (IF last.printSucceeded /\
             Events(last.trace, "getDone") = << <<"getDone", "exists">> >>
          THEN 1 ELSE 0)

\* C8 witness: a job printed, its record existed and the update set the flag.
C8_Witness ==
  /\ JustFinished /\ last.printSucceeded
  /\ Events(last.trace, "updateDone") = << <<"updateDone", "ok">> >>
  /\ OrderRef(last.order) \in printed

\* C9: a job without printId issues no deletion against the printQueue
\* collection and still completes: its emissions run, the printed-flag step
\* runs after a successful print, the busy flag is cleared and the next
\* buffered job, if any, is the one in flight.
C9_NoPrintId ==
  (JustFinished /\ last.order.printId = "") =>
    /\ Len(Events(last.trace, "delete")) = 0
    /\ Len(Events(last.trace, "print")) >= 1
    /\ last.printSucceeded => Len(Events(last.trace, "get")) = 1
    /\ last.order.tok \in done
    /\ IF pushed > last.order.tok
       THEN isPrinting /\ ActiveToks = {last.order.tok + 1}
       ELSE ~isPrinting /\ active = {} /\ Len(printQueue) = 0

\* C9 witness: a job without printId finished and the next job is in flight.
C9_Witness ==
  /\ JustFinished /\ last.order.printId = ""
  /\ ActiveToks = {last.order.tok + 1}

\* C10: when the record is absent at the printed-flag step after a
\* successful print, the job counts as a success, no update is issued and
\* the printQueue entry is still deleted.
C10_MissingRecord ==
  (JustFinished /\ <<"getDone", "missing">> \in Range(last.trace)) =>
    /\ last.printSucceeded
    /\ Len(Events(last.trace, "update")) = 0
    /\ Events(last.trace, "delete") = << <<"delete", last.order.printId>> >>
    /\ <<"deleteDone", "ok">> \in Range(last.trace) =>
          last.order.printId \notin durable

\* C10 witness: a DineIn job printed, found its record absent, and its
\* printQueue entry is gone.
C10_Witness ==
  /\ JustFinished /\ last.order.orderType = "Dine In"
  /\ <<"getDone", "missing">> \in Range(last.trace)
  /\ <<"deleteDone", "ok">> \in Range(last.trace)
  /\ last.order.printId \in placed \ durable

\* C11: a failure of the printed-flag read or update does not change the
\* job's outcome: the job is still recorded as printed, the deletion of its
\* queue entry is still attempted, once and after the failure, and the
\* worker goes on to the next job.
C11_FlagFailureSwallowed ==
  (JustFinished /\ (<<"getDone", "error">> \in Range(last.trace)
                    \/ <<"updateDone", "error">> \in Range(last.trace))) =>
    /\ last.printSucceeded
    /\ last.order.printId # "" =>
         /\ Len(Events(last.trace, "delete")) = 1
         /\ \E i, j \in DOMAIN last.trace :
              /\ i < j
              /\ last.trace[i] \in {<<"getDone", "error">>,
                                     <<"updateDone", "error">>}
              /\ last.trace[j] = <<"delete", last.order.printId>>
    /\ last.order.tok \in done
    /\ IF pushed > last.order.tok
       THEN isPrinting /\ ActiveToks = {last.order.tok + 1}
       ELSE ~isPrinting /\ active = {} /\ Len(printQueue) = 0

\* C11 witness: all emissions succeeded, the update failed, the job ended
\* and the next job is in flight.
C11_Witness ==
  /\ JustFinished /\ <<"updateDone", "error">> \in Range(last.trace)
  /\ last.order.printId # ""
  /\ ActiveToks = {last.order.tok + 1}

\* The failures one job's processing can meet.
Failures == { <<"printDone", "fail">>, <<"getDone", "error">>,
              <<"updateDone", "error">>, <<"deleteDone", "error">> }

\* C12: no failure inside one job's processing stops the worker: the busy
\* flag is set exactly while an activation of processQueue is suspended, a
\* non-empty buffer always has a job in flight, and when a job that met a
\* failure ends, the next buffered job is in flight or the worker is idle
\* with an empty buffer.
C12_FailureContained ==
  /\ isPrinting <=> active # {}
  /\ Len(printQueue) # 0 => isPrinting
  /\ (JustFinished /\ Range(last.trace) \cap Failures # {}) =>
       /\ last.order.tok \in done
       /\ IF pushed > last.order.tok
          THEN isPrinting /\ ActiveToks = {last.order.tok + 1}
          ELSE ~isPrinting /\ Len(printQueue) = 0

\* C12 witness: a job whose emission failed and whose queue-entry deletion
\* failed too has ended, and the next job is in flight.
C12_Witness ==
  /\ JustFinished
  /\ <<"printDone", "fail">> \in Range(last.trace)
  /\ <<"deleteDone", "error">> \in Range(last.trace)
  /\ ActiveToks = {last.order.tok + 1}

\* The events of a job's emissions and of its printed-flag step.
StepNames == {"print", "commit", "printDone", "get", "getDone",
              "update", "updateDone"}

\* C13: the deletion of a job's queue entry is issued only after every
\* emission of the job and its printed-flag step have finished: each
\* emission, read and update that was started has returned before the
\* delete and none follows it, a job whose emissions all succeeded has had
\* its record read, and for such a TakeOut job the order is ticket B,
\* ticket A, the read of takeOutOrders, then the delete.
C13_DeleteLast ==
  \A t \in Traces :
    \A j \in DOMAIN t.trace :
      t.trace[j][1] = "delete" =>
        LET before == SubSeq(t.trace, 1, j - 1)
            ok == <<"printDone", "fail">> \notin Range(before)
        IN /\ \A i \in DOMAIN t.trace : t.trace[i][1] \in StepNames => i < j
           /\ Len(Events(before, "print")) = Len(Events(before, "printDone"))
           /\ Len(Events(before, "get")) = Len(Events(before, "getDone"))
           /\ Len(Events(before, "update")) =
                Len(Events(before, "updateDone"))
           /\ ok => Len(Events(before, "getDone")) = 1
           /\ (ok /\ t.order.orderType = "Take Out") =>
                SelectSeq(before,
                          LAMBDA e : e[1] \in {"print", "printDone", "get"}) =
                  << <<"print", "B">>, <<"printDone", "ok">>,
                     <<"print", "A">>, <<"printDone", "ok">>,
                     <<"get", "takeOutOrders">> >>

\* C13 witness: a TakeOut job whose two tickets were printed and whose flag
\* was updated is waiting for the delete of its queue entry.
C13_Witness ==
  \E a \in active :
    /\ a.pc = "delete" /\ a.order.orderType = "Take Out"
    /\ Emissions(a.trace) = <<"B", "A">>
    /\ <<"updateDone", "ok">> \in Range(a.trace)

\* C14: a call of processQueue made while the busy flag is set, or while
\* the buffer is empty, changes nothing: buffer, busy flag and the in-flight
\* activation with the prints, updates and deletes it has issued are the
\* same after the call.
C14_NoOpCall ==
  (isPrinting \/ Len(printQueue) = 0) =>
    LET w == processQueue(Cur)
    IN /\ w.printQueue = printQueue
       /\ w.isPrinting = isPrinting
       /\ w.active = active
       /\ w.started = started
       /\ w.done = done

\* C14 witness: two jobs were pushed while a third, now at its
\* printed-flag read, was in flight: each push called processQueue with
\* the busy flag set.
C14_Witness ==
  /\ isPrinting /\ Len(printQueue) = 2
  /\ \E a \in active : a.pc = "get"

\* C15: handling a change notification never waits for a print: a step
\* that pushes jobs while a job is in flight only appends them to the tail
\* of the buffer, in push order, and leaves the in-flight activation, the
\* busy flag and the jobs dequeued so far as they were; and when an
\* activation ends while the buffer is non-empty, the head of the buffer is
\* the job that starts.
C15_AppendOnly ==
  [][ /\ (pushed' > pushed /\ active # {}) =>
           /\ active' = active
           /\ isPrinting' = isPrinting
           /\ started' = started
           /\ done' = done
           /\ Len(printQueue') = Len(printQueue) + (pushed' - pushed)
           /\ SubSeq(printQueue', 1, Len(printQueue)) = printQueue
           /\ \A i \in 1..(pushed' - pushed) :
                 printQueue'[Len(printQueue) + i].tok = pushed + i
      /\ (last' # NoLast /\ Len(printQueue) # 0) =>
           /\ printQueue' = Tail(printQueue)
           /\ { a.order.tok : a \in active' } = {Head(printQueue).tok}
    ]_vars

\* C15 witness: while the job of document d1 waits for execute, the
\* listener has appended the job of document d2.
C15_Witness ==
  /\ listener = "listening"
  /\ \E a \in active : a.pc = "execute" /\ a.order.printId = "d1"
  /\ Len(printQueue) = 1 /\ printQueue[1].printId = "d2"

\* C16: every subscription error schedules exactly one reconnect: a
\* disconnected listener has exactly one call of connect pending, a live
\* one has none, after any number of errors.
C16_OneReconnect ==
  /\ listener = "disconnected" => connects = 1
  /\ listener = "listening" => connects = 0

\* C16 witness: the error callback has run and the listener waits for its
\* one pending reconnect.
C16_Witness ==
  feedErrors >= 1 /\ listener = "disconnected" /\ connects = 1

\* C17: in a change-notification batch every added and every modified
\* document gets exactly one job appended to the buffer, in batch order
\* (added documents, then modified ones, each group in document order),
\* carrying the document's data and its id as printId, and the worker is
\* running afterwards.
C17_OneJobPerChange ==
  [][ pushed' > pushed =>
        LET all == started' \o printQueue'
            new == SelectSeq(all, LAMBDA j : j.tok > pushed
                                             /\ j.printId \in durable)
            docs == SelectSeq(DocOrder,
                              LAMBDA d : d \in durable /\ d \notin seen) \o
                    SelectSeq(DocOrder,
                              LAMBDA d : d \in durable /\ d \in seen
                                         /\ d \in modified)
        IN /\ Len(new) = Len(docs)
           /\ \A i \in DOMAIN docs :
                 /\ new[i].printId = docs[i]
                 /\ new[i].id = DocData(docs[i]).id
                 /\ new[i].orderType = DocData(docs[i]).orderType
           /\ \A i \in 1..(Len(new) - 1) : new[i].tok < new[i + 1].tok
           /\ isPrinting' /\ active' # {}
    ]_vars

\* C17 witness: a document that is still in the printQueue collection has
\* two jobs, the one pushed when it was added and the one pushed when it
\* was modified.
C17_Witness ==
  LET all == started \o printQueue
  IN \E i, j \in DOMAIN all :
       /\ i < j
       /\ all[i].printId = all[j].printId
       /\ all[i].printId \in durable

\* C18: an empty notification batch is a no-op: the snapshot callback run
\* on an empty collection leaves the buffer, the busy flag, the in-flight
\* activation and the jobs pushed and dequeued so far unchanged, and the
\* listener stays in the listening state with no reconnect scheduled.
C18_EmptyBatch ==
  [][ (/\ listener = "listening" /\ durable = {}
       /\ \/ fresh /\ ~fresh'
          \/ seen # {} /\ seen' = {}) =>
        /\ printQueue' = printQueue
        /\ isPrinting' = isPrinting
        /\ active' = active
        /\ started' = started
        /\ pushed' = pushed
        /\ listener' = "listening"
        /\ connects' = connects
    ]_vars

\* C18 witness: the latest snapshot of a live subscription was empty and
\* was delivered while a job was in flight.
C18_Witness ==
  /\ listener = "listening" /\ ~fresh /\ seen = {}
  /\ durable = {} /\ placed # {}
  /\ isPrinting

\* The seven formatting sections, in their fixed order.
Sections == <<"printRestaurantHeader", "printOrderTypeHeader",
              "printPreorderInfo", "printOrderDetails", "printOrderItems",
              "printTotals", "printFooter">>

\* What commits a ticket: execute, or the write to the USB device.
Commits == {"execute", "write"}

\* C19 as stated: when the printer reports that it is not connected,
\* printOrder fails before any formatting command is issued to the printer
\* and without cut or execute being called.
C19_NothingIssued ==
  ticket.connected = "no" =>
    ticket.pc = "thrown" /\ ticket.surface = <<>>

\* C19, amended: when the printer reports that it is not connected,
\* printOrder fails with the not-connected error and neither execute nor a
\* USB write is ever called, so nothing is printed; printOrder of
\* printer.js has then issued no formatting command and no cut, while the
\* cross-platform printOrder has buffered all seven sections and the cut
\* before it asked.
C19_NoOutput ==
  ticket.connected = "no" =>
    /\ ticket.pc = "thrown"
    /\ ticket.error =
         IF ticket.impl = "printer.js" THEN "Printer not connected"
         ELSE "Printer not connected at CONFIG.PRINTER.interface"
    /\ Range(ticket.surface) \cap Commits = {}
    /\ ticket.surface =
         IF ticket.impl = "printer.js" THEN <<>> ELSE Sections \o <<"cut">>

\* C19 witness: the cross-platform printOrder on Linux failed because the
\* printer was not connected, after the sections and the cut.
C19_Witness ==
  /\ ticket.connected = "no" /\ ticket.pc = "thrown"
  /\ ticket.impl = "part_000/linux"
  /\ ticket.surface # <<>>

\* C20: a ticket is never partially committed: a call of printOrder
\* commits at most once, and only after the seven sections ran in their
\* fixed order without error and cut was called; if a step of the
\* formatting throws, no cut and no commit is issued, the call does not
\* return normally and the error it throws is the one the step threw.
C20_NoPartialCommit ==
  LET s == ticket.surface
  IN /\ Len(SelectSeq(s, LAMBDA c : c \in Commits)) <= 1
     /\ Len(SelectSeq(s, LAMBDA c : c = "cut")) <= 1
     /\ \A j \in DOMAIN s :
           s[j] \in Commits => SubSeq(s, 1, j - 1) = Sections \o <<"cut">>
     /\ \A j \in DOMAIN s :
           s[j] = "cut" => SubSeq(s, 1, j - 1) = Sections
     /\ ticket.pc = "returned" => s[Len(s)] \in Commits
     /\ ticket.failAt # 0 =>
           /\ Range(s) \cap (Commits \cup {"cut"}) = {}
           /\ ticket.pc # "returned"
           /\ (ticket.pc = "thrown" /\ ticket.connected # "no") =>
                 /\ ticket.error = Steps[ticket.failAt]
                 /\ s = SubSeq(Sections, 1, ticket.failAt - 2)

\* C20 witness: printOrder of printer.js threw the error of printOrderItems
\* after the sections before it had run, and committed nothing.
C20_Witness ==
  /\ ticket.impl = "printer.js" /\ ticket.pc = "thrown"
  /\ ticket.error = "printOrderItems"
  /\ Len(ticket.surface) = 5

\* The result of a call of groupItemsByKitchen is in calc.
Grouped == calc.fn = "groupItemsByKitchen"

\* The ids of the items of a sequence of items.
Ids(items) == { items[i].id : i \in DOMAIN items }

\* C21: the sections groupItemsByKitchen returns are mutually exclusive:
\* for every item list and either value of excludeTogo no item is in two
\* sections, nor twice in one.
C21_Exclusive ==
  Grouped =>
    LET secs == calc.result
    IN /\ \A i, j \in DOMAIN secs :
            i # j => Ids(secs[i].items) \cap Ids(secs[j].items) = {}
       /\ \A i \in DOMAIN secs :
            Cardinality(Ids(secs[i].items)) = Len(secs[i].items)

\* C21 witness: an appetizer that is also a togo item of kitchen A was
\* grouped with excludeTogo false, and came out in one section.
C21_Witness ==
  /\ Grouped /\ ~calc.args[2]
  /\ \E i \in DOMAIN calc.args[1] :
        /\ calc.args[1][i].appetizer /\ calc.args[1][i].togo
        /\ calc.args[1][i].kitchenType = "A"
  /\ Len(calc.result) = 1

\* C22: the union of the items of all returned sections is the input item
\* set: no input item is missing from the result.
C22_Union ==
  Grouped =>
    UNION { Ids(calc.result[i].items) : i \in DOMAIN calc.result } =
      Ids(calc.args[1])

\* The labels in their fixed order.
LabelOrder == <<"Appetizers", "Kitchen A", "Kitchen Z", "Kitchen B",
                "Kitchen C", "Togo Items">>

\* The place of a label in the fixed order.
Rank(label) == CHOOSE k \in DOMAIN LabelOrder : LabelOrder[k] = label

\* The input items that belong under a label, in input order.
Belonging(items, label, excludeTogo) ==
  SelectSeq(items, LAMBDA it :
    CASE label = "Appetizers" -> it.appetizer
      [] label = "Togo Items" -> ~excludeTogo /\ it.togo /\ ~it.appetizer
      [] OTHER -> /\ ~it.appetizer /\ ~it.togo
                  /\ label = "Kitchen " \o it.kitchenType)

\* C23: the returned sections are in the relative order Appetizers,
\* Kitchen A, Kitchen Z, Kitchen B, Kitchen C, Togo Items; a section is
\* returned exactly when it has at least one item (the Togo Items section
\* is built only when excludeTogo is false), and inside a section the items
\* are in input order.
C23_Order ==
  Grouped =>
    LET secs == calc.result
        items == calc.args[1]
    IN /\ \A i \in DOMAIN secs : secs[i].label \in Range(LabelOrder)
       /\ \A i, j \in DOMAIN secs :
            i < j => Rank(secs[i].label) < Rank(secs[j].label)
       /\ \A k \in DOMAIN LabelOrder :
            (\E i \in DOMAIN secs : secs[i].label = LabelOrder[k]) <=>
              Len(Belonging(items, LabelOrder[k], calc.args[2])) > 0
       /\ \A i \in DOMAIN secs :
            /\ Len(secs[i].items) > 0
            /\ secs[i].items = Belonging(items, secs[i].label, calc.args[2])

\* C23 witness: a kitchen B item followed by a kitchen Z item came out as
\* section Kitchen Z, then section Kitchen B.
C23_Witness ==
  /\ Grouped /\ Len(calc.result) = 2
  /\ calc.args[1][1].kitchenType = "B"
  /\ calc.result[1].label = "Kitchen Z"
  /\ calc.result[2].label = "Kitchen B"

\* The result of a call of preprocessOrderItem is in calc: the item as it
\* was passed, the item as it is after the call, the object returned, and
\* the options of each.
Preprocessed == calc.fn = "preprocessOrderItem"
ItemBefore == calc.args[1].objs[1]
ItemAfter == calc.result.objs[1]
Returned == calc.result.objs[Len(calc.result.objs)]
OptionsBefore ==
  IF ItemBefore.options = 0 THEN << >>
  ELSE calc.args[1].arrs[ItemBefore.options]
ReturnedOptions ==
  IF Returned.options = 0 THEN << >> ELSE calc.result.arrs[Returned.options]

\* C24: for every item whose options are empty or absent the returned
\* item has the name of the input, and its displayName is the quantity,
\* "x ", and the name when quantity > 1, and the name otherwise.
C24_NoOptions ==
  (Preprocessed /\ Len(OptionsBefore) = 0) =>
    /\ Returned.name = ItemBefore.name
    /\ Returned.displayName =
         (CASE ItemBefore.quantity = 2 /\ ItemBefore.name = "#3" -> "2x #3"
            [] ItemBefore.quantity = 2 /\ ItemBefore.name = "Wonton"
                 -> "2x Wonton"
            [] OTHER -> ItemBefore.name)

\* C24 witness: an item "Wonton" of quantity 2 without an options array
\* came back with displayName "2x Wonton".
C24_Witness ==
  /\ Preprocessed /\ ItemBefore.options = 0
  /\ Returned.displayName = "2x Wonton"

\* The least element of a set of places, or 0 when there is none.
First(places) ==
  IF places = {} THEN 0 ELSE CHOOSE i \in places : \A j \in places : i <= j

\* The option each rule consumes (its place in the input, or 0), rule by
\* rule on what the earlier rules left.
SpecialPick ==
  IF ItemBefore.name = "#3"
  THEN First({ i \in DOMAIN OptionsBefore :
                 OptionsBefore[i].name \notin {"Egg Roll", "Spring Roll"} })
  ELSE 0
EggSpringPick ==
  First({ i \in DOMAIN OptionsBefore :
            /\ i # SpecialPick
            /\ OptionsBefore[i].name \in {"Egg Roll", "Spring Roll"}
            /\ OptionsBefore[i].quantity <= 1 })
RiceNoodlePick ==
  First({ i \in DOMAIN OptionsBefore :
            /\ i # SpecialPick
            /\ OptionsBefore[i].name \in {"Rice", "Noodles"} })

\* C25: the three rewrite rules apply in the order special-item,
\* egg-roll/spring-roll, rice/noodle, each to the options the earlier rules
\* left and each consuming the first option that matches it: the name gets
\* the suffixes in rule order whatever the order of the options ("#3" with
\* options Egg Roll, Fried Rice becomes "#3/Fried Rice/ER" with no option
\* left), at most three options are consumed, and the other options stay,
\* in their original order.
C25_RuleOrder ==
  (Preprocessed /\ Len(OptionsBefore) > 0) =>
    /\ Returned.name =
         ItemBefore.name
         \o (IF SpecialPick # 0
             THEN "/" \o OptionsBefore[SpecialPick].name ELSE "")
         \o (IF EggSpringPick = 0 THEN ""
             ELSE IF OptionsBefore[EggSpringPick].name = "Egg Roll"
                  THEN "/ER" ELSE "/SP")
         \o (IF RiceNoodlePick = 0 THEN ""
             ELSE IF OptionsBefore[RiceNoodlePick].name = "Rice"
                  THEN "/Rice" ELSE "/ND")
    /\ ReturnedOptions =
         SelectSeq(OptionsBefore,
                   LAMBDA o : o.id \notin {SpecialPick, EggSpringPick,
                                            RiceNoodlePick})
    /\ Len(OptionsBefore) - Len(ReturnedOptions) <= 3
    /\ (/\ ItemBefore.name = "#3" /\ Len(OptionsBefore) = 2
        /\ OptionsBefore[1].name = "Egg Roll"
        /\ OptionsBefore[1].quantity = 0
        /\ OptionsBefore[2].name = "Fried Rice") =>
          Returned.name = "#3/Fried Rice/ER" /\ ReturnedOptions = << >>

\* C25 witness: item "#3" with options Egg Roll, Fried Rice came back as
\* "#3/Fried Rice/ER" with no option left.
C25_Witness ==
  /\ Preprocessed /\ Len(OptionsBefore) = 2
  /\ OptionsBefore[1].name = "Egg Roll"
  /\ Returned.name = "#3/Fried Rice/ER"
  /\ Len(ReturnedOptions) = 0

\* C26: preprocessOrderItem never mutates its input: after the call the
\* item passed has the name, the quantity and the options array it had,
\* with the same elements in the same order, and no displayName; the
\* object returned is another object.
C26_InputIntact ==
  Preprocessed =>
    /\ ItemAfter = ItemBefore
    /\ ItemAfter.displayName = "undefined"
    /\ ItemBefore.options # 0 =>
         calc.result.arrs[ItemBefore.options] = OptionsBefore
    /\ Len(calc.result.objs) = 2

\* C26 witness: the three rules fired on an item with three options: the
\* returned object has none left and a longer name.
C26_Witness ==
  /\ Preprocessed /\ Len(OptionsBefore) = 3
  /\ Len(ReturnedOptions) = 0
  /\ Returned.name # ItemBefore.name

\* C27: getOrderTotals is idempotent under re-supplying its own output as
\* the order's breakdown: called again on the order that carries the first
\* result as its breakdown, with any second argument, it returns the same
\* grandTotal; and a breakdown with a numeric grandTotal is authoritative:
\* the grandTotal returned is the breakdown's, whatever order.total and
\* the second argument are.
C27_RoundTrip ==
  /\ calc.fn = "getOrderTotals twice" =>
       calc.result.grandTotal = calc.args[3].grandTotal
  /\ (/\ calc.fn = "getOrderTotals"
      /\ calc.args[1].taxBreakDown.t = "object"
      /\ calc.args[1].taxBreakDown.grandTotal.t = "number") =>
       calc.result.grandTotal = calc.args[1].taxBreakDown.grandTotal

\* C27 witness: the totals computed from order.total 10.00 with no
\* breakdown were stored as the breakdown, and the second call, made with
\* another subtotal, returned the same grand total 11.10.
C27_Witness ==
  /\ calc.fn = "getOrderTotals twice"
  /\ calc.args[3].subtotal = [t |-> "number", v |-> 100000]
  /\ calc.args[2] = [t |-> "number", v |-> 50000]
  /\ calc.result.grandTotal = [t |-> "number", v |-> 111000]
  /\ calc.result.subtotal = [t |-> "number", v |-> 50000]

RECURSIVE FlatSum(_)
\* The sum of the prices of a list of options, extras or changes.
FlatSum(list) ==
  IF Len(list) = 0 THEN Zero
  ELSE Add(FlatSum(SubSeq(list, 1, Len(list) - 1)), list[Len(list)].price)

\* C28: calculateTogoTotal returns 0 for an empty list and for an argument
\* that is not a list, and it is additive: the total of the concatenation
\* of two lists is the sum of their totals, where a single item
\* contributes its price times its quantity (1 when not set) plus the flat
\* sum of its option, extra and change prices.
C28_Additive ==
  /\ calc.fn = "calculateTogoTotal of no list" => calc.result = Zero
  /\ calc.fn = "calculateTogoTotal" =>
       LET X == calc.args[1]
           Y == calc.args[2]
       IN /\ calc.result.whole = Add(calc.result.x, calc.result.y)
          /\ Len(X) = 0 => calc.result.x = Zero
          /\ Len(X) = 1 =>
               calc.result.x =
                 Add(Add(Add(Multiply(X[1].price,
                                      IF X[1].quantity = 0 THEN 1
                                      ELSE X[1].quantity),
                             FlatSum(X[1].options)),
                         FlatSum(X[1].extras)),
                     FlatSum(X[1].changes))

\* The emissions a job of the given type requires.
Required(orderType) ==
  IF orderType = "Take Out" THEN <<"B", "A">> ELSE <<"">>

\* Every required emission of the job was issued and returned without
\* error in the given part of its trace.
AllEmitted(order, part) ==
  /\ Emissions(part) = Required(order.orderType)
  /\ Events(part, "printDone") =
       [i \in 1..Len(Required(order.orderType)) |-> <<"printDone", "ok">>]

\* C29: the worker sets the printed flag of a record only after every
\* required emission of the job completed without error: a flag is set
\* only by the update of a job whose required emissions have all returned
\* without error, every read or update of the record is issued after
\* them, and a job with a failed emission issues no read and no update of
\* the record, up to its end.
C29_FlagAfterEmissions ==
  [][ /\ \A r \in printed' \ printed :
           \E a \in active :
             /\ a.pc = "update" /\ OrderRef(a.order) = r
             /\ AllEmitted(a.order, a.trace)
      /\ \A a \in active' \cup
                  (IF last' # NoLast
                   THEN {[order |-> last'.order, trace |-> last'.trace]}
                   ELSE {}) :
           /\ \A i \in DOMAIN a.trace :
                 a.trace[i][1] \in {"get", "update"} =>
                   AllEmitted(a.order, SubSeq(a.trace, 1, i - 1))
           /\ <<"printDone", "fail">> \in Range(a.trace) =>
                 /\ Len(Events(a.trace, "get")) = 0
                 /\ Len(Events(a.trace, "update")) = 0
    ]_vars

\* C29 witness: the flag of a TakeOut record is set, by a job that printed
\* ticket B and ticket A, and the job after it, whose ticket A failed, has
\* ended without a read of its record.
C29_Witness ==
  /\ \E r \in printed : r[1] = "takeOutOrders"
  /\ JustFinished /\ last.order.orderType = "Take Out"
  /\ Emissions(last.trace) = <<"B", "A">>
  /\ <<"printDone", "fail">> \in Range(last.trace)
  /\ Len(Events(last.trace, "get")) = 0

\* C30: for a TakeOut job whose emission to "B" fails, the emission to "A"
\* is never attempted: the job goes straight to the deletion of its queue
\* entry, with no read or update of its record in between, and ends as a
\* failure; the entry is gone from the collection once that deletion has
\* returned without error.
C30_BFailureEndsJob ==
  \A t \in Traces :
    (/\ t.order.orderType = "Take Out"
     /\ Len(Events(t.trace, "printDone")) # 0
     /\ Events(t.trace, "printDone")[1] = <<"printDone", "fail">>) =>
      LET after == SelectSeq(t.trace,
                     LAMBDA e : e[1] \notin {"start", "print", "commit",
                                             "printDone"})
          whole == << <<"delete", t.order.printId>>, <<"deleteDone", "ok">>,
                      <<"end", "">> >>
          failed == [whole EXCEPT ![2] = <<"deleteDone", "error">>]
      IN /\ Emissions(t.trace) = <<"B">>
         /\ Len(Events(t.trace, "printDone")) = 1
         /\ t.order.printId # "" =>
              /\ Len(after) >= 1
              /\ after \in {SubSeq(whole, 1, Len(after)),
                             SubSeq(failed, 1, Len(after))}
              /\ t.finished <=> Len(after) = 3
         /\ t.finished =>
              /\ ~last.printSucceeded
              /\ t.order.tok \in done
              /\ <<"deleteDone", "ok">> \in Range(t.trace) =>
                    t.order.printId \notin durable

\* C30 witness: a TakeOut job delivered by the listener has ended after its
\* ticket B failed, with ticket A never issued and its queue entry deleted.
C30_Witness ==
  /\ JustFinished /\ last.order.orderType = "Take Out"
  /\ last.order.printId # "" /\ last.order.printId \in placed
  /\ Emissions(last.trace) = <<"B">>
  /\ <<"printDone", "fail">> \in Range(last.trace)
  /\ <<"deleteDone", "ok">> \in Range(last.trace)
  /\ last.order.printId \notin durable

\* The jobs pushed by the step.
NewJobs ==
  { j \in Range(printQueue') \cup { a.order : a \in active' } :
      j.tok > pushed }

\* C31: a change notification that reports the removal of a document of
\* the printQueue collection, such as the removal the worker makes at the
\* end of a job while other documents remain, appends no job: every job a
\* step pushes is for a document that is in the collection at that time.
C31_RemovalNotEnqueued ==
  [][ \A j \in NewJobs : j.printId \in durable ]_vars

\* C32: after a feed error and a new subscription, a job that is still in
\* the buffer or in flight when the new subscription delivers its first
\* snapshot is not appended a second time: that snapshot pushes no job for
\* the document of a job that is buffered or in flight.
C32_NoReplay ==
  [][ (fresh /\ ~fresh' /\ feedErrors > 0) =>
        \A j \in NewJobs :
          j.printId \notin { printQueue[i].printId : i \in DOMAIN printQueue }
                            \cup { a.order.printId : a \in active }
    ]_vars

\* C33: no job is stranded: whenever the busy flag is false the buffer is
\* empty, the busy flag is true exactly while a dequeued job has not yet
\* finished its queue-entry deletion step, and that job is not in the
\* buffer.
C33_NoStranding ==
  /\ ~isPrinting => Len(printQueue) = 0
  /\ isPrinting <=> active # {}
  /\ isPrinting <=> Toks(started) # done
  /\ \A a \in active :
        /\ a.pc \in {"isPrinterConnected", "execute", "get", "update",
                      "delete"}
        /\ a.order.tok \notin Toks(printQueue)
        /\ Len(Events(a.trace, "deleteDone")) = 0

\* C33 witness: a job has just ended with a failed print and a failed
\* delete while two more waited: the busy flag is set again, the next job
\* is in flight and the last one is in the buffer.
C33_Witness ==
  /\ JustFinished
  /\ <<"printDone", "fail">> \in Range(last.trace)
  /\ <<"deleteDone", "error">> \in Range(last.trace)
  /\ isPrinting /\ ActiveToks = {last.order.tok + 1}
  /\ Toks(printQueue) = {last.order.tok + 2}

\* C34: the first emission of the next job never starts before the
\* queue-entry deletion attempt of the previous job has returned: in a
\* step that dequeues a job, every job dequeued before has finished, a job
\* that ends in that step has had its delete, if it issued one, return as
\* the last thing before its end, and the job dequeued is the only one in
\* flight, at its first emission.
C34_NoOverlap ==
  [][ Len(started') > Len(started) =>
        /\ Len(started') = Len(started) + 1
        /\ Toks(started) \subseteq done'
        /\ \A a \in active' :
              /\ a.order = started'[Len(started')]
              /\ a.pc = "isPrinterConnected"
              /\ Len(Events(a.trace, "print")) = 1
        /\ active # {} =>
              /\ last' # NoLast
              /\ { b.order : b \in active } = {last'.order}
              /\ LET n == Len(last'.trace)
                 IN last'.order.printId # "" =>
                      /\ n >= 3
                      /\ last'.trace[n - 2] = <<"delete", last'.order.printId>>
                      /\ last'.trace[n - 1][1] = "deleteDone"
                      /\ last'.trace[n] = <<"end", "">>
    ]_vars

\* C34 witness: the delete of a printed and flagged job has returned and
\* the same step has dequeued the TakeOut job behind it, now at its
\* ticket B.
C34_Witness ==
  /\ JustFinished
  /\ <<"updateDone", "ok">> \in Range(last.trace)
  /\ <<"deleteDone", "ok">> \in Range(last.trace)
  /\ \E a \in active :
        /\ a.order.tok = last.order.tok + 1
        /\ a.order.orderType = "Take Out"
        /\ a.trace = << <<"start", "">>, <<"print", "B">> >>

\* C35: the worker never creates a source-of-truth record and never sets
\* the printed flag on an absent record, also when another party deletes
\* the record between the existence check and the update: the update then
\* fails, the failure is swallowed and the job still ends as a success
\* with its queue entry deleted.
C35_NoFlagOnAbsent ==
  [][ /\ printed' \subseteq records'
      /\ records' \subseteq records
      /\ \A a \in active :
            (a.pc = "update" /\ OrderRef(a.order) \notin records
             /\ a \notin active') =>
              /\ records' = records /\ printed' = printed
              /\ \E b \in Traces' :
                    /\ b.order = a.order
                    /\ SubSeq(b.trace, 1, Len(a.trace) + 1) =
                         Append(a.trace, <<"updateDone", "error">>)
                    /\ IF a.order.printId # ""
                       THEN ~b.finished /\ b.trace[Len(b.trace)] =
                                             <<"delete", a.order.printId>>
                       ELSE b.finished /\ last'.printSucceeded
      /\ (last' # NoLast /\ <<"updateDone", "error">> \in Range(last'.trace)) =>
            /\ last'.printSucceeded
            /\ last'.order.tok \in done'
            /\ last'.order.printId # "" =>
                  Len(Events(last'.trace, "deleteDone")) = 1
    ]_vars

\* C35 witness: a job's read found its record, the record was deleted
\* before the update, and the job has ended as a success with a failed
\* update and its queue entry deleted; the record is absent and not
\* flagged.
C35_Witness ==
  /\ JustFinished /\ last.printSucceeded
  /\ <<"getDone", "exists">> \in Range(last.trace)
  /\ <<"updateDone", "error">> \in Range(last.trace)
  /\ <<"deleteDone", "ok">> \in Range(last.trace)
  /\ OrderRef(last.order) \notin records
  /\ OrderRef(last.order) \notin printed

\* The collection that holds the record of an order of the given type.
CollectionOf(orderType) ==
  IF orderType = "Dine In" THEN "dineInOrders" ELSE "takeOutOrders"

\* C36: the printed-flag step addresses the record by order.id, never by
\* printId, in the dine-in collection exactly when the order type is
\* DineIn and in the take-out collection for every other type, while a
\* job has two emissions only when its type is TakeOut, and has them
\* whenever such a job printed; so an order of an unrecognised type gets
\* one untagged ticket and its flag update goes to the take-out
\* collection.
C36_Addressing ==
  [][ /\ \A r \in printed' \ printed :
           \E a \in active :
             /\ a.pc = "update"
             /\ r = <<CollectionOf(a.order.orderType), a.order.id>>
      /\ \A t \in Traces' :
           /\ \A i \in DOMAIN t.trace :
                 t.trace[i][1] \in {"get", "update"} =>
                   t.trace[i][2] = CollectionOf(t.order.orderType)
           /\ Len(Emissions(t.trace)) = 2 => t.order.orderType = "Take Out"
           /\ Len(Events(t.trace, "get")) = 1 =>
                 (Len(Emissions(t.trace)) = 2 <=>
                    t.order.orderType = "Take Out")
           /\ t.order.orderType \notin {"Dine In", "Take Out"} =>
                 /\ Emissions(t.trace) = <<"">>
                 /\ Range(Events(t.trace, "get")) \subseteq
                      {<<"get", "takeOutOrders">>}
                 /\ Range(Events(t.trace, "update")) \subseteq
                      {<<"update", "takeOutOrders">>}
    ]_vars

\* C36 witness: a Delivery job with id o2 and queue document d3 has ended
\* after one untagged ticket and a successful update, and the record o2 of
\* the take-out collection is flagged.
C36_Witness ==
  /\ JustFinished /\ last.order.orderType = "Delivery"
  /\ last.order.id = "o2" /\ last.order.printId = "d3"
  /\ Emissions(last.trace) = <<"">>
  /\ <<"update", "takeOutOrders">> \in Range(last.trace)
  /\ <<"updateDone", "ok">> \in Range(last.trace)
  /\ <<"takeOutOrders", "o2">> \in printed

====
